---- MODULE Spec2Model ----
(***************************************************************************)
(* A model of mmflow's flow post-processor (BaseDecoder.postprocess_result *)
(* and BaseDecoder.predict_by_feat, models/decoders/base_decoder.py) and   *)
(* of its annotation loader (LoadAnnotations, datasets/pipelines/          *)
(* loading.py).                                                            *)
(*                                                                         *)
(* Tensors are records [H, W, d] with d[c][y][x] (1-based) an exact        *)
(* rational <<numerator, denominator>> in lowest terms; the code computes  *)
(* in float32, so every equality below is an equality of the exact values. *)
(***************************************************************************)
EXTENDS Integers, Sequences, FiniteSets, TLC

\* ------------------------------------------------------------------ bounds
\* Largest batch size N (and largest data_samples list) explored.
MaxN == 2
\* Largest pad margin explored on each side of each axis.
MaxPad == 1

\* ---------------------------------------------------------- rational values
Abs(n) == IF n < 0 THEN -n ELSE n

RECURSIVE GCD(_, _)
GCD(a, b) == IF b = 0 THEN a ELSE GCD(b, a % b)

\* The rational n/d (d # 0) in lowest terms with a positive denominator.
Rat(n, d) ==
    LET g == GCD(Abs(n), Abs(d))
        s == IF d < 0 THEN -1 ELSE 1
    IN  <<(s * n) \div g, (s * d) \div g>>

RatAdd(a, b) == Rat(a[1] * b[2] + b[1] * a[2], a[2] * b[2])
RatMul(a, b) == Rat(a[1] * b[1], a[2] * b[2])
RatDiv(a, b) == Rat(a[1] * b[2], a[2] * b[1])

\* Python's None for a scalar of metainfo, and for the pad tuple.
None == <<>>

\* ------------------------------------------------------------------ tensors
\* The shape of a (2, H, W) tensor [H, W, d].
Shape(f) == <<2, f.H, f.W>>

\* Python's slice index k on an axis of length n: a negative index counts
\* from the end, and the result is clamped to 0..n.
SliceIndex(k, n) ==
    LET j == IF k < 0 THEN k + n ELSE k
    IN  IF j < 0 THEN 0 ELSE IF j > n THEN n ELSE j

\* The number of indices the slice start:stop keeps on an axis of length n.
SliceLen(start, stop, n) ==
    LET a == SliceIndex(start, n)
        b == SliceIndex(stop, n)
    IN  IF b > a THEN b - a ELSE 0

\* A crop that writes the stop index as -pad (f[:, t:-b, l:-r]) and so keeps
\* nothing on an axis whose trailing margin is 0.
CropNegativeStop(f, pad) ==
    LET y0 == SliceIndex(pad[1][1], f.H)
        h  == SliceLen(pad[1][1], 0 - pad[1][2], f.H)
        x0 == SliceIndex(pad[2][1], f.W)
        w  == SliceLen(pad[2][1], 0 - pad[2][2], f.W)
    IN  [H |-> h, W |-> w,
         d |-> [c \in 1..2 |-> [y \in 1..h |-> [x \in 1..w |->
                    f.d[c][y + y0][x + x0]]]]]

\* f[:, pad[0][0]:(H - pad[0][1]), pad[1][0]:(W - pad[1][1])]
Crop(f, pad) ==
    LET y0 == SliceIndex(pad[1][1], f.H)
        h  == SliceLen(pad[1][1], f.H - pad[1][2], f.H)
        x0 == SliceIndex(pad[2][1], f.W)
        w  == SliceLen(pad[2][1], f.W - pad[2][2], f.W)
    IN  [H |-> h, W |-> w,
         d |-> [c \in 1..2 |-> [y \in 1..h |-> [x \in 1..w |->
                    f.d[c][y + y0][x + x0]]]]]

\* torch's bilinear source index for output index k (0-based) on an axis
\* resized from n to m, align_corners=False: src = (k + 1/2) * n/m - 1/2,
\* clamped below at 0. The result is <<i0, i1, lambda1>> with i0, i1 0-based.
SourceIndex(k, n, m) ==
    LET num == (2 * k + 1) * n - m
        p   == IF num < 0 THEN 0 ELSE num
        i0  == p \div (2 * m)
        i1  == IF i0 < n - 1 THEN i0 + 1 ELSE i0
    IN  <<i0, i1, Rat(p % (2 * m), 2 * m)>>

\* (1 - l1) * a + l1 * b
Lerp(a, b, l1) == RatAdd(RatMul(RatAdd(<<1, 1>>, RatMul(<<-1, 1>>, l1)), a),
                         RatMul(l1, b))

\* F.interpolate(f[None], size=(oh, ow), mode='bilinear',
\*               align_corners=False).squeeze(0)
Interpolate(f, oh, ow) ==
    [H |-> oh, W |-> ow,
     d |-> [c \in 1..2 |-> [y \in 1..oh |-> [x \in 1..ow |->
        LET sy == SourceIndex(y - 1, f.H, oh)
            sx == SourceIndex(x - 1, f.W, ow)
            top == Lerp(f.d[c][sy[1] + 1][sx[1] + 1],
                        f.d[c][sy[1] + 1][sx[2] + 1], sx[3])
            bot == Lerp(f.d[c][sy[2] + 1][sx[1] + 1],
                        f.d[c][sy[2] + 1][sx[2] + 1], sx[3])
        IN  Lerp(top, bot, sy[3])]]]]

\* The two divisions with the scale factors exchanged between the channels.
UnscaleSwapped(f, w_scale, h_scale) ==
    [H |-> f.H, W |-> f.W,
     d |-> [c \in 1..2 |-> [y \in 1..f.H |-> [x \in 1..f.W |->
        RatDiv(f.d[c][y][x], IF c = 1 THEN h_scale ELSE w_scale)]]]]

\* f[0, :, :] = f[0, :, :] / w_scale ; f[1, :, :] = f[1, :, :] / h_scale
Unscale(f, w_scale, h_scale) ==
    [H |-> f.H, W |-> f.W,
     d |-> [c \in 1..2 |-> [y \in 1..f.H |-> [x \in 1..f.W |->
        RatDiv(f.d[c][y][x], IF c = 1 THEN w_scale ELSE h_scale)]]]]

\* flow * flow_div, on one sample of the batch
Scale(f, k) ==
    [H |-> f.H, W |-> f.W,
     d |-> [c \in 1..2 |-> [y \in 1..f.H |-> [x \in 1..f.W |->
        RatMul(f.d[c][y][x], k)]]]]

\* A revert that tests the scale factors before the pad.
RevertScaleFirst(f, img_meta) ==
    LET pad     == img_meta.pad
        w_scale == img_meta.scale_factor[1]
        h_scale == img_meta.scale_factor[2]
    IN  IF w_scale # None /\ h_scale # None
        THEN Unscale(Interpolate(f, img_meta.ori_shape[1],
                                 img_meta.ori_shape[2]), w_scale, h_scale)
        ELSE IF pad # None THEN Crop(f, pad) ELSE f

\* Lines 79-97: the inverse transform of one sample. A metainfo without the
\* key 'pad' reads as pad = None and one without 'scale_factor' as
\* (None, None): img_meta.pad and img_meta.scale_factor hold what .get returns.
\* Every metainfo holds ori_shape, and a row of the batch tensor is never
\* None, so the test of line 83 always passes.
Revert(f, img_meta) ==
    LET pad     == img_meta.pad
        w_scale == img_meta.scale_factor[1]
        h_scale == img_meta.scale_factor[2]
    IN  IF pad # None
        THEN Crop(f, pad)
        ELSE IF w_scale # None /\ h_scale # None
             THEN Unscale(Interpolate(f, img_meta.ori_shape[1],
                                      img_meta.ori_shape[2]), w_scale, h_scale)
             ELSE f

\* ------------------------------------------------------------ decoder state
VARIABLES
    flow_arg,        \* the batch tensor the caller passes: a sequence of N flows
    ds_none,         \* TRUE iff the caller passes data_samples = None
    caller_list,     \* the caller's data_samples list object, mutated in place
    flow_div,        \* self.flow_div
    entry,           \* the method the caller invoked
    pc,              \* position in the call
    flow_results,    \* the local flow_results
    data_samples,    \* the local data_samples: "None", "caller" or "fresh"
    fresh_list,      \* the list created at line 66
    only_prediction, \* the local only_prediction
    i,               \* the loop variable
    ret,             \* what the call returned: "unset", "None", "caller", "fresh"
    err,             \* the exception that left the call, "none" if none did
    steps            \* the batch operations predict_by_feat applied, in order

dvars == <<flow_arg, ds_none, caller_list, flow_div, entry, pc, flow_results,
           data_samples, fresh_list, only_prediction, i, ret, err, steps>>

\* The loader's state.
VARIABLES
    results,      \* the record dict passed to transform, mutated in place
    sparse,       \* self.sparse
    with_occ,     \* self.with_occ
    file_client,  \* self.file_client: "None" until the first call
    fs,           \* the storage behind the file client: path -> status
    lpc,          \* position in transform
    flow_fw,      \* the locals of _load_flow / _load_sparse_flow / _load_occ
    flow_bw,
    valid,
    occ_fw,
    occ_bw,
    reads,        \* the record keys whose file file_client.get was asked for
    decodes,      \* the decoder calls made: [key, fmt]
    lerr,         \* the exception that left transform, "none" if none did
    lret          \* "unset" until transform returns results

lvars == <<results, sparse, with_occ, file_client, fs, lpc, flow_fw, flow_bw,
           valid, occ_fw, occ_bw, reads, decodes, lerr, lret>>

vars == <<dvars, lvars>>

\* An unset pred_flow_fw.
NoTensor == [H |-> 0, W |-> 0, d |-> <<>>]

\* Input flows: a "ramp" has pairwise distinct elements, a "const" flow is
\* constant on each channel; sample k of a batch differs from the others.
FlowOf(kind, k, h, w) ==
    [H |-> h, W |-> w,
     d |-> [c \in 1..2 |-> [y \in 1..h |-> [x \in 1..w |->
        IF kind = "ramp" THEN <<1000 * k + 100 * c + 10 * y + x, 1>>
                         ELSE <<10 * k + c, 1>>]]]]

FlowShapes == {<<2, 3>>, <<5, 7>>}
OriShapes  == {<<2, 2>>, <<4, 6>>}
ImgShapes  == {<<2, 3>>, <<3, 4>>}
ScaleVals  == {None, <<1, 2>>, <<2, 1>>}
FlowDivs   == {<<20, 1>>}

PadVals == 0..MaxPad
Pads == {<<<<t, b>>, <<l, r>>>> : t \in PadVals, b \in PadVals,
                                  l \in PadVals, r \in PadVals}
        \cup {<<<<2, 2>>, <<3, 3>>>>}

\* Pads that come together with a scale_factor.
PadsWithScale == {<<<<1, 0>>, <<0, 1>>>>, <<<<0, 0>>, <<0, 0>>>>, <<<<2, 2>>, <<3, 3>>>>}

\* The metainfo of a sample: no pad with any scale_factor, a pad with no
\* scale_factor, or a pad with one.
Metas ==
    {[ori_shape |-> o, img_shape |-> m, pad |-> None, scale_factor |-> <<w, h>>] :
        o \in OriShapes, m \in ImgShapes, w \in ScaleVals, h \in ScaleVals}
    \cup
    {[ori_shape |-> <<4, 6>>, img_shape |-> <<3, 4>>, pad |-> p,
      scale_factor |-> <<None, None>>] : p \in Pads}
    \cup
    {[ori_shape |-> <<4, 6>>, img_shape |-> <<3, 4>>, pad |-> p,
      scale_factor |-> <<<<1, 2>>, <<2, 1>>>>] : p \in PadsWithScale}

\* The metainfo of the samples after the first.
TailMetas ==
    {[ori_shape |-> <<4, 6>>, img_shape |-> <<3, 4>>, pad |-> None,
      scale_factor |-> <<None, None>>],
     [ori_shape |-> <<4, 6>>, img_shape |-> <<3, 4>>, pad |-> <<<<1, 0>>, <<0, 1>>>>,
      scale_factor |-> <<None, None>>],
     [ori_shape |-> <<2, 2>>, img_shape |-> <<2, 3>>, pad |-> None,
      scale_factor |-> <<<<1, 2>>, <<2, 1>>>>]}

Sample(meta) == [metainfo |-> meta, has_pred |-> FALSE, pred_flow_fw |-> NoTensor]

SampleLists ==
    UNION {{[k \in 1..n |-> Sample(IF k = 1 THEN m ELSE t)] :
                m \in Metas, t \in TailMetas} : n \in 0..MaxN}

Batches ==
    {[k \in 1..n |-> FlowOf("ramp", k, s[1], s[2])] :
        n \in 0..MaxN, s \in FlowShapes}
    \cup {[k \in 1..n |-> FlowOf("const", k, 2, 3)] : n \in 0..MaxN}

InitDecoder ==
    /\ flow_arg \in Batches
    /\ ds_none \in BOOLEAN
    /\ caller_list \in (IF ds_none THEN {<<>>} ELSE SampleLists)
    /\ flow_div \in FlowDivs
    /\ entry = "none"
    /\ pc = "idle"
    /\ flow_results = <<>>
    /\ data_samples = "None"
    /\ fresh_list = <<>>
    /\ only_prediction = FALSE
    /\ i = 0
    /\ ret = "unset"
    /\ err = "none"
    /\ steps = <<>>

\* The list object a reference names.
Deref(ref) == IF ref = "caller" THEN caller_list
              ELSE IF ref = "fresh" THEN fresh_list ELSE <<>>

\* ---------------------------------------------------------- predict_by_feat
\* The caller invokes predict_by_feat(flow_results, data_samples).
predict_by_feat ==
    /\ UNCHANGED lvars
    /\ pc = "idle"
    /\ pc' = "pbf"
    /\ entry' = "predict_by_feat"
    /\ flow_results' = flow_arg
    /\ data_samples' = IF ds_none THEN "None" ELSE "caller"
    /\ UNCHANGED <<flow_arg, ds_none, caller_list, flow_div, fresh_list,
                   only_prediction, i, ret, err, steps>>

\* Lines 115-117: data_samples is None.
predict_no_samples ==
    /\ UNCHANGED lvars
    /\ pc = "pbf"
    /\ data_samples = "None"
    /\ flow_results' = [k \in 1..Len(flow_results) |-> Scale(flow_results[k], flow_div)]
    /\ steps' = Append(steps, "mul")
    /\ pc' = "pp"
    /\ UNCHANGED <<flow_arg, ds_none, caller_list, flow_div, entry, data_samples,
                   fresh_list, only_prediction, i, ret, err>>

\* A resize of the batch to the img_shape of the last sample.
TargetShapeLast(samples) == samples[Len(samples)].metainfo.img_shape

\* Line 119: H, W = data_samples[0].metainfo['img_shape'][:2]
TargetShape(samples) == samples[1].metainfo.img_shape

\* Lines 119-122: the resize of the whole batch; data_samples[0] of an empty
\* list raises IndexError.
predict_resize ==
    /\ UNCHANGED lvars
    /\ pc = "pbf"
    /\ data_samples # "None"
    /\ IF Len(Deref(data_samples)) = 0
       THEN /\ err' = "IndexError"
            /\ pc' = "raised"
            /\ UNCHANGED <<flow_results, steps>>
       ELSE /\ LET hw == TargetShape(Deref(data_samples))
               IN  flow_results' = [k \in 1..Len(flow_results) |->
                                     Interpolate(flow_results[k], hw[1], hw[2])]
            /\ steps' = Append(steps, "resize")
            /\ pc' = "pbf_mul"
            /\ err' = err
    /\ UNCHANGED <<flow_arg, ds_none, caller_list, flow_div, entry, data_samples,
                   fresh_list, only_prediction, i, ret>>

\* Lines 124-126: the multiplication by flow_div, then the call.
predict_mul ==
    /\ UNCHANGED lvars
    /\ pc = "pbf_mul"
    /\ flow_results' = [k \in 1..Len(flow_results) |-> Scale(flow_results[k], flow_div)]
    /\ steps' = Append(steps, "mul")
    /\ pc' = "pp"
    /\ UNCHANGED <<flow_arg, ds_none, caller_list, flow_div, entry, data_samples,
                   fresh_list, only_prediction, i, ret, err>>

\* -------------------------------------------------------- postprocess_result
\* The caller invokes postprocess_result(flow_results, data_samples).
postprocess_result ==
    /\ UNCHANGED lvars
    /\ pc = "idle"
    /\ pc' = "pp"
    /\ entry' = "postprocess_result"
    /\ flow_results' = flow_arg
    /\ data_samples' = IF ds_none THEN "None" ELSE "caller"
    /\ UNCHANGED <<flow_arg, ds_none, caller_list, flow_div, fresh_list,
                   only_prediction, i, ret, err, steps>>

\* Lines 61-69: unravel the batch, take the branch on data_samples, assert.
postprocess_enter ==
    /\ UNCHANGED lvars
    /\ pc = "pp"
    /\ IF data_samples = "None"
       THEN /\ data_samples' = "fresh"
            /\ fresh_list' = <<>>
            /\ only_prediction' = TRUE
            /\ pc' = "loop"
            /\ err' = err
       ELSE /\ UNCHANGED <<data_samples, fresh_list, only_prediction>>
            /\ IF Len(flow_results) = Len(Deref(data_samples))
               THEN pc' = "loop" /\ err' = err
               ELSE pc' = "raised" /\ err' = "AssertionError"
    /\ i' = 0
    /\ UNCHANGED <<flow_arg, ds_none, caller_list, flow_div, entry, flow_results,
                   ret, steps>>

\* A loop whose return statement follows it: the body is left for the next
\* iteration.
AfterBodyContinue(k) == [pc |-> "loop", i |-> k + 1]

\* Line 100: the return statement is the last statement of the loop body.
AfterBody(k) == [pc |-> "return", i |-> k]

\* Lines 71-99: one iteration of the loop body.
postprocess_body ==
    /\ UNCHANGED lvars
    /\ pc = "loop"
    /\ i < Len(flow_results)
    /\ IF only_prediction
       THEN /\ fresh_list' = Append(fresh_list,
                                    [has_pred |-> TRUE,
                                     pred_flow_fw |-> flow_results[i + 1]])
            /\ UNCHANGED caller_list
       ELSE /\ caller_list' =
                 [caller_list EXCEPT ![i + 1] =
                    [@ EXCEPT !.has_pred = TRUE,
                              !.pred_flow_fw =
                                  Revert(flow_results[i + 1],
                                         caller_list[i + 1].metainfo)]]
            /\ UNCHANGED fresh_list
    /\ pc' = AfterBody(i).pc
    /\ i' = AfterBody(i).i
    /\ UNCHANGED <<flow_arg, ds_none, flow_div, entry, flow_results, data_samples,
                   only_prediction, ret, err, steps>>

\* Line 100: return data_samples
postprocess_return ==
    /\ UNCHANGED lvars
    /\ pc = "return"
    /\ ret' = data_samples
    /\ pc' = "done"
    /\ UNCHANGED <<flow_arg, ds_none, caller_list, flow_div, entry, flow_results,
                   data_samples, fresh_list, only_prediction, i, err, steps>>

\* A function whose return statement follows the loop: an exhausted loop
\* returns data_samples.
postprocess_fall_off_returns ==
    /\ UNCHANGED lvars
    /\ pc = "loop"
    /\ i >= Len(flow_results)
    /\ ret' = data_samples
    /\ pc' = "done"
    /\ UNCHANGED <<flow_arg, ds_none, caller_list, flow_div, entry, flow_results,
                   data_samples, fresh_list, only_prediction, i, err, steps>>

\* The loop ends without having run its body's return: the function falls off
\* its end and returns None.
postprocess_fall_off ==
    /\ UNCHANGED lvars
    /\ pc = "loop"
    /\ i >= Len(flow_results)
    /\ ret' = "None"
    /\ pc' = "done"
    /\ UNCHANGED <<flow_arg, ds_none, caller_list, flow_div, entry, flow_results,
                   data_samples, fresh_list, only_prediction, i, err, steps>>

NextDecoder ==
    \/ predict_by_feat
    \/ predict_no_samples
    \/ predict_resize
    \/ predict_mul
    \/ postprocess_result
    \/ postprocess_enter
    \/ postprocess_body
    \/ postprocess_return
    \/ postprocess_fall_off

\* ------------------------------------------------------------- loader state
\* Values of a local or of a key of results.
Unbound == [kind |-> "unbound", src |-> <<>>, fmt |-> <<>>]
NoneVal == [kind |-> "None", src |-> <<>>, fmt |-> <<>>]
Array(kind, path, fmt) == [kind |-> kind, src |-> path, fmt |-> fmt]

\* Paths are sequences of characters.
FlowPaths == {<<"a", ".", "f", "l", "o">>, <<"b", ".", "p", "f", "m">>, <<"l", "o">>}
OccPaths  == {<<"o", ".", "p", "n", "g">>}
Statuses  == {"ok", "unreadable", "corrupt"}

PathKeys == <<"flow_fw_path", "flow_bw_path", "occ_fw_path", "occ_bw_path">>

\* The last four characters of a path (an extension taken with its dot).
LastFour(path) ==
    SubSeq(path, IF Len(path) > 4 THEN Len(path) - 3 ELSE 1, Len(path))

\* filename[-3:]
LastThree(path) ==
    SubSeq(path, IF Len(path) > 3 THEN Len(path) - 2 ELSE 1, Len(path))

\* The outcome of a statement: a value, or a raised exception.
Return(v)  == [raised |-> "none", value |-> v]
Raise(e)   == [raised |-> e, value |-> Unbound]

\* A decoder that yields None for bytes it cannot decode.
DecodeLenient(kind, path, fmt) ==
    IF fs[path] = "corrupt" THEN Return(NoneVal)
    ELSE Return(Array(kind, path, fmt))

\* flow_from_bytes, sparse_flow_from_bytes and imfrombytes(...)/255: the
\* decoders are external; on bytes they cannot decode they raise.
Decode(kind, path, fmt) ==
    IF fs[path] = "corrupt" THEN Raise("DecodeError")
    ELSE Return(Array(kind, path, fmt))

\* self.file_client.get(path), then the decoder on its bytes.
GetAndDecode(kind, path, fmt) ==
    IF fs[path] = "unreadable" THEN Raise("IOError")
    ELSE Decode(kind, path, fmt)

InitLoader ==
    /\ results \in
         {[flow_fw_path |-> a, flow_bw_path |-> b, occ_fw_path |-> c,
           occ_bw_path |-> d, gt_flow_fw |-> Unbound, gt_flow_bw |-> Unbound,
           gt_valid |-> Unbound, gt_occ_fw |-> Unbound, gt_occ_bw |-> Unbound] :
            a \in FlowPaths \cup {None}, b \in FlowPaths \cup {None},
            c \in OccPaths \cup {None}, d \in OccPaths \cup {None}}
    /\ sparse \in BOOLEAN
    /\ with_occ \in BOOLEAN
    /\ file_client = "None"
    /\ fs \in [FlowPaths \cup OccPaths -> Statuses]
    /\ lpc = "idle"
    /\ flow_fw = Unbound
    /\ flow_bw = Unbound
    /\ valid = Unbound
    /\ occ_fw = Unbound
    /\ occ_bw = Unbound
    /\ reads = <<>>
    /\ decodes = <<>>
    /\ lerr = "none"
    /\ lret = "unset"

\* Lines 90-96: transform creates the file client and enters a flow loader.
transform ==
    /\ UNCHANGED dvars
    /\ lpc = "idle"
    /\ file_client' = "FileClient"
    /\ lpc' = IF sparse THEN "sparse_fw" ELSE "flow_fw"
    /\ UNCHANGED <<results, sparse, with_occ, fs, flow_fw, flow_bw, valid,
                   occ_fw, occ_bw, reads, decodes, lerr, lret>>

\* Lines 112-119: _load_flow, the forward flow.
load_flow_fw ==
    /\ UNCHANGED dvars
    /\ lpc = "flow_fw"
    /\ LET path == results.flow_fw_path
       IN  IF path = None
           THEN /\ flow_fw' = NoneVal
                /\ lpc' = "flow_bw"
                /\ UNCHANGED <<reads, decodes, lerr>>
           ELSE LET r == GetAndDecode("flow", path, LastThree(path))
                IN  /\ reads' = Append(reads, "flow_fw_path")
                    /\ decodes' = IF r.raised = "IOError" THEN decodes
                                  ELSE Append(decodes, [key |-> "flow_fw_path",
                                                        fmt |-> LastThree(path)])
                    /\ lerr' = r.raised
                    /\ lpc' = IF r.raised = "none" THEN "flow_bw" ELSE "raised"
                    /\ flow_fw' = r.value
    /\ UNCHANGED <<results, sparse, with_occ, file_client, fs, flow_bw, valid,
                   occ_fw, occ_bw, lret>>

\* Lines 121-125: _load_flow, the backward flow.
load_flow_bw ==
    /\ UNCHANGED dvars
    /\ lpc = "flow_bw"
    /\ LET path == results.flow_bw_path
       IN  IF path = None
           THEN /\ flow_bw' = NoneVal
                /\ lpc' = "flow_store"
                /\ UNCHANGED <<reads, decodes, lerr>>
           ELSE LET r == GetAndDecode("flow", path, LastThree(path))
                IN  /\ reads' = Append(reads, "flow_bw_path")
                    /\ decodes' = IF r.raised = "IOError" THEN decodes
                                  ELSE Append(decodes, [key |-> "flow_bw_path",
                                                        fmt |-> LastThree(path)])
                    /\ lerr' = r.raised
                    /\ lpc' = IF r.raised = "none" THEN "flow_store" ELSE "raised"
                    /\ flow_bw' = r.value
    /\ UNCHANGED <<results, sparse, with_occ, file_client, fs, flow_fw, valid,
                   occ_fw, occ_bw, lret>>

\* Lines 126-129 and 97-100: _load_flow stores both keys and returns.
load_flow_store ==
    /\ UNCHANGED dvars
    /\ lpc = "flow_store"
    /\ results' = [results EXCEPT !.gt_flow_fw = flow_fw, !.gt_flow_bw = flow_bw]
    /\ lpc' = IF with_occ THEN "occ_fw" ELSE "return"
    /\ UNCHANGED <<sparse, with_occ, file_client, fs, flow_fw, flow_bw, valid,
                   occ_fw, occ_bw, reads, decodes, lerr, lret>>

\* Lines 140-146: _load_sparse_flow; valid is bound only when the path is present.
load_sparse_fw ==
    /\ UNCHANGED dvars
    /\ lpc = "sparse_fw"
    /\ LET path == results.flow_fw_path
       IN  IF path = None
           THEN /\ flow_fw' = NoneVal
                /\ lpc' = "sparse_store"
                /\ UNCHANGED <<valid, reads, decodes, lerr>>
           ELSE LET r == GetAndDecode("sparse_flow", path, <<>>)
                IN  /\ reads' = Append(reads, "flow_fw_path")
                    /\ decodes' = IF r.raised = "IOError" THEN decodes
                                  ELSE Append(decodes, [key |-> "flow_fw_path",
                                                        fmt |-> <<>>])
                    /\ lerr' = r.raised
                    /\ lpc' = IF r.raised = "none" THEN "sparse_store" ELSE "raised"
                    /\ flow_fw' = r.value
                    /\ valid' = IF r.raised = "none"
                                THEN Array("valid", path, <<>>) ELSE valid
    /\ UNCHANGED <<results, sparse, with_occ, file_client, fs, flow_bw,
                   occ_fw, occ_bw, lret>>

\* Lines 148-153: the two flow keys are stored, then valid is read; reading
\* the unbound local raises UnboundLocalError.
load_sparse_store ==
    /\ UNCHANGED dvars
    /\ lpc = "sparse_store"
    /\ IF valid = Unbound
       THEN /\ results' = [results EXCEPT !.gt_flow_fw = flow_fw,
                                          !.gt_flow_bw = NoneVal]
            /\ lerr' = "UnboundLocalError"
            /\ lpc' = "raised"
       ELSE /\ results' = [results EXCEPT !.gt_flow_fw = flow_fw,
                                          !.gt_flow_bw = NoneVal,
                                          !.gt_valid = valid]
            /\ lerr' = lerr
            /\ lpc' = IF with_occ THEN "occ_fw" ELSE "return"
    /\ UNCHANGED <<sparse, with_occ, file_client, fs, flow_fw, flow_bw, valid,
                   occ_fw, occ_bw, reads, decodes, lret>>

\* Lines 167-172: _load_occ, the forward occlusion mask.
load_occ_fw ==
    /\ UNCHANGED dvars
    /\ lpc = "occ_fw"
    /\ LET path == results.occ_fw_path
       IN  IF path = None
           THEN /\ occ_fw' = NoneVal
                /\ lpc' = "occ_bw"
                /\ UNCHANGED <<reads, decodes, lerr>>
           ELSE LET r == GetAndDecode("occ", path, <<>>)
                IN  /\ reads' = Append(reads, "occ_fw_path")
                    /\ decodes' = IF r.raised = "IOError" THEN decodes
                                  ELSE Append(decodes, [key |-> "occ_fw_path",
                                                        fmt |-> <<>>])
                    /\ lerr' = r.raised
                    /\ lpc' = IF r.raised = "none" THEN "occ_bw" ELSE "raised"
                    /\ occ_fw' = r.value
    /\ UNCHANGED <<results, sparse, with_occ, file_client, fs, flow_fw, flow_bw,
                   valid, occ_bw, lret>>

\* Lines 173-178: _load_occ, the backward occlusion mask.
load_occ_bw ==
    /\ UNCHANGED dvars
    /\ lpc = "occ_bw"
    /\ LET path == results.occ_bw_path
       IN  IF path = None
           THEN /\ occ_bw' = NoneVal
                /\ lpc' = "occ_store"
                /\ UNCHANGED <<reads, decodes, lerr>>
           ELSE LET r == GetAndDecode("occ", path, <<>>)
                IN  /\ reads' = Append(reads, "occ_bw_path")
                    /\ decodes' = IF r.raised = "IOError" THEN decodes
                                  ELSE Append(decodes, [key |-> "occ_bw_path",
                                                        fmt |-> <<>>])
                    /\ lerr' = r.raised
                    /\ lpc' = IF r.raised = "none" THEN "occ_store" ELSE "raised"
                    /\ occ_bw' = r.value
    /\ UNCHANGED <<results, sparse, with_occ, file_client, fs, flow_fw, flow_bw,
                   valid, occ_fw, lret>>

\* Lines 179-182: _load_occ stores both keys and returns.
load_occ_store ==
    /\ UNCHANGED dvars
    /\ lpc = "occ_store"
    /\ results' = [results EXCEPT !.gt_occ_fw = occ_fw, !.gt_occ_bw = occ_bw]
    /\ lpc' = "return"
    /\ UNCHANGED <<sparse, with_occ, file_client, fs, flow_fw, flow_bw, valid,
                   occ_fw, occ_bw, reads, decodes, lerr, lret>>

\* Line 100: return results
transform_return ==
    /\ UNCHANGED dvars
    /\ lpc = "return"
    /\ lret' = "results"
    /\ lpc' = "done"
    /\ UNCHANGED <<results, sparse, with_occ, file_client, fs, flow_fw, flow_bw,
                   valid, occ_fw, occ_bw, reads, decodes, lerr>>

NextLoader ==
    \/ transform
    \/ load_flow_fw
    \/ load_flow_bw
    \/ load_flow_store
    \/ load_sparse_fw
    \/ load_sparse_store
    \/ load_occ_fw
    \/ load_occ_bw
    \/ load_occ_store
    \/ transform_return

\* ------------------------------------------------------------ specifications
\* The decoder before any call, for the runs of the loader alone.
DecoderParked ==
    /\ flow_arg = <<>>
    /\ ds_none = TRUE
    /\ caller_list = <<>>
    /\ flow_div = <<1, 1>>
    /\ entry = "none"
    /\ pc = "parked"
    /\ flow_results = <<>>
    /\ data_samples = "None"
    /\ fresh_list = <<>>
    /\ only_prediction = FALSE
    /\ i = 0
    /\ ret = "unset"
    /\ err = "none"
    /\ steps = <<>>

\* The loader before any call, for the runs of the decoder alone.
LoaderParked ==
    /\ results = [flow_fw_path |-> None, flow_bw_path |-> None,
                  occ_fw_path |-> None, occ_bw_path |-> None,
                  gt_flow_fw |-> Unbound, gt_flow_bw |-> Unbound,
                  gt_valid |-> Unbound, gt_occ_fw |-> Unbound,
                  gt_occ_bw |-> Unbound]
    /\ sparse = FALSE
    /\ with_occ = FALSE
    /\ file_client = "None"
    /\ fs = [p \in FlowPaths \cup OccPaths |-> "ok"]
    /\ lpc = "parked"
    /\ flow_fw = Unbound
    /\ flow_bw = Unbound
    /\ valid = Unbound
    /\ occ_fw = Unbound
    /\ occ_bw = Unbound
    /\ reads = <<>>
    /\ decodes = <<>>
    /\ lerr = "none"
    /\ lret = "unset"

InitD == InitDecoder /\ LoaderParked

InitL == InitLoader /\ DecoderParked

\* One call of postprocess_result or of predict_by_feat on any input.
SpecDecoder == InitD /\ [][NextDecoder]_vars

\* One call of LoadAnnotations.transform on any record and storage.
SpecLoader == InitL /\ [][NextLoader]_vars

\* -------------------------------------------------------------------- claims
\* postprocess_result has run its loop (or has returned).
InLoop == pc \in {"loop", "return", "done"}

\* The samples of the caller's list the loop body has processed.
Processed == {k \in 1..Len(caller_list) : InLoop /\ caller_list[k].has_pred}

\* C1: called with N >= 1 flows and a data_samples list of the same length N,
\* postprocess_result leaves every record data_samples[0..N-1] with a
\* pred_flow_fw, the post-processed flow of the sample with the same index.
C1_EverySampleGetsItsFlow ==
    (pc = "done" /\ ~ds_none /\ Len(flow_arg) >= 1
        /\ Len(caller_list) = Len(flow_arg))
    => \A k \in 1..Len(caller_list) :
          /\ caller_list[k].has_pred
          /\ caller_list[k].pred_flow_fw =
                Revert(flow_results[k], caller_list[k].metainfo)

\* C2: called with data_samples = None on N >= 1 flows, postprocess_result
\* returns after the first sample: the returned sequence holds exactly one
\* prediction-only record, whose pred_flow_fw is flow_results[0] unchanged.
C2_NoSamplesFirstOnly ==
    (pc = "done" /\ ds_none /\ Len(flow_results) >= 1)
    => /\ only_prediction
       /\ ret = "fresh"
       /\ Len(fresh_list) = 1
       /\ fresh_list[1].has_pred
       /\ fresh_list[1].pred_flow_fw = flow_results[1]
       /\ entry = "postprocess_result" => flow_results = flow_arg
       /\ \A k \in 1..Len(caller_list) : ~caller_list[k].has_pred

C2_Witness ==
    /\ pc = "done" /\ entry = "postprocess_result" /\ ds_none
    /\ Len(flow_arg) = 2
    /\ Len(fresh_list) = 1
    /\ fresh_list[1].pred_flow_fw = flow_arg[1]
    /\ flow_arg[1].H = 5

\* C3: a processed sample with pad = ((t, b), (l, r)), t + b <= H and
\* l + r <= W is cropped by exactly the pad margins: the attached flow has
\* shape (2, H - t - b, W - l - r) and its element (c, y, x) is the input
\* element (c, y + t, x + l); no resize to ori_shape is applied.
C3_PadCropsExactly ==
    \A k \in Processed :
        LET f   == flow_results[k]
            pad == caller_list[k].metainfo.pad
            out == caller_list[k].pred_flow_fw
        IN  (pad # None /\ pad[1][1] + pad[1][2] <= f.H
                        /\ pad[2][1] + pad[2][2] <= f.W)
            => /\ Shape(out) = <<2, f.H - pad[1][1] - pad[1][2],
                                 f.W - pad[2][1] - pad[2][2]>>
               /\ \A c \in 1..2 : \A y \in 1..out.H : \A x \in 1..out.W :
                     out.d[c][y][x] = f.d[c][y + pad[1][1]][x + pad[2][1]]

C3_Witness ==
    /\ pc = "done" /\ 1 \in Processed
    /\ caller_list[1].metainfo.pad = <<<<2, 2>>, <<3, 3>>>>
    /\ Shape(flow_results[1]) = <<2, 5, 7>>
    /\ Shape(caller_list[1].pred_flow_fw) = <<2, 1, 1>>
    /\ caller_list[1].pred_flow_fw.d[1][1][1] = <<1134, 1>>

\* The flow f is constant on each channel.
IsConst(f) ==
    \A c \in 1..2 : \A y \in 1..f.H : \A x \in 1..f.W : f.d[c][y][x] = f.d[c][1][1]

\* C4: a processed sample with no pad and scale_factor = (w_scale, h_scale)
\* is resized to ori_shape, giving shape (2, oriH, oriW), and then channel 0
\* is divided by w_scale and channel 1 by h_scale; with scale_factor
\* (1/2, 1/2) both channels of the resized flow are doubled.
C4_RescaleToOriShape ==
    \A k \in Processed :
        LET f   == flow_results[k]
            m   == caller_list[k].metainfo
            w_s == m.scale_factor[1]
            h_s == m.scale_factor[2]
            out == caller_list[k].pred_flow_fw
            up  == Interpolate(f, m.ori_shape[1], m.ori_shape[2])
        IN  (m.pad = None /\ w_s # None /\ h_s # None)
            => /\ Shape(out) = <<2, m.ori_shape[1], m.ori_shape[2]>>
               /\ \A y \in 1..out.H : \A x \in 1..out.W :
                     /\ RatMul(out.d[1][y][x], w_s) = up.d[1][y][x]
                     /\ RatMul(out.d[2][y][x], h_s) = up.d[2][y][x]
               /\ IsConst(f) =>
                     \A y \in 1..out.H : \A x \in 1..out.W :
                        /\ RatMul(out.d[1][y][x], w_s) = f.d[1][1][1]
                        /\ RatMul(out.d[2][y][x], h_s) = f.d[2][1][1]
               /\ (w_s = <<1, 2>> /\ h_s = <<1, 2>>) =>
                     \A c \in 1..2 : \A y \in 1..out.H : \A x \in 1..out.W :
                        out.d[c][y][x] = RatMul(<<2, 1>>, up.d[c][y][x])

C4_Witness ==
    /\ pc = "done" /\ entry = "postprocess_result" /\ 1 \in Processed
    /\ caller_list[1].metainfo.pad = None
    /\ caller_list[1].metainfo.scale_factor = <<<<1, 2>>, <<1, 2>>>>
    /\ caller_list[1].metainfo.ori_shape = <<4, 6>>
    /\ Shape(flow_results[1]) = <<2, 2, 3>>
    /\ Shape(caller_list[1].pred_flow_fw) = <<2, 4, 6>>
    /\ flow_results[1].d[1][1][1] = <<11, 1>>
    /\ caller_list[1].pred_flow_fw.d[1][4][6] = <<22, 1>>
    /\ caller_list[1].pred_flow_fw.d[2][1][1] = <<24, 1>>

\* C5: exactly one inverse transform is applied per processed sample, the pad
\* first: with a pad only the crop (also when scale factors are present), with
\* no pad and both scale factors only the rescale, otherwise none.
C5_PadTakesPrecedence ==
    \A k \in Processed :
        LET f   == flow_results[k]
            m   == caller_list[k].metainfo
            out == caller_list[k].pred_flow_fw
        IN  /\ m.pad # None => out = Crop(f, m.pad)
            /\ (m.pad = None /\ m.scale_factor[1] # None
                             /\ m.scale_factor[2] # None)
                  => out = Unscale(Interpolate(f, m.ori_shape[1], m.ori_shape[2]),
                                   m.scale_factor[1], m.scale_factor[2])
            /\ (m.pad = None /\ (m.scale_factor[1] = None
                                 \/ m.scale_factor[2] = None))
                  => out = f

C5_Witness ==
    /\ pc = "done" /\ 1 \in Processed
    /\ caller_list[1].metainfo.pad = <<<<1, 0>>, <<0, 1>>>>
    /\ caller_list[1].metainfo.scale_factor = <<<<1, 2>>, <<2, 1>>>>
    /\ Shape(flow_results[1]) = <<2, 5, 7>>
    /\ Shape(caller_list[1].pred_flow_fw) = <<2, 4, 6>>
    /\ caller_list[1].pred_flow_fw.d[2][1][1] = flow_results[1].d[2][2][1]

\* C9: predict_by_feat applies its steps in a fixed order: with data_samples
\* given the whole batch is resized to the img_shape of data_samples[0], then
\* multiplied by flow_div, and only then handed to postprocess_result; with
\* data_samples = None the batch is only multiplied by flow_div.
C9_ResizeThenMulThenPostprocess ==
    entry = "predict_by_feat" =>
        /\ pc = "pbf" => steps = <<>> /\ flow_results = flow_arg
        /\ pc = "pbf_mul" => steps = <<"resize">>
        /\ pc \in {"pp", "loop", "return", "done"}
              => steps = (IF ds_none THEN <<"mul">> ELSE <<"resize", "mul">>)
        /\ (pc \in {"pp", "loop", "return", "done"} /\ ds_none)
              => /\ Len(flow_results) = Len(flow_arg)
                 /\ \A k \in 1..Len(flow_arg) :
                       flow_results[k] = Scale(flow_arg[k], flow_div)
                 /\ pc = "pp" => data_samples = "None"
        /\ (pc \in {"pbf_mul", "pp", "loop", "return", "done"} /\ ~ds_none)
              => /\ Len(flow_results) = Len(flow_arg)
                 /\ \A k \in 1..Len(flow_arg) :
                       LET hw == caller_list[1].metainfo.img_shape
                           up == Interpolate(flow_arg[k], hw[1], hw[2])
                       IN  /\ Shape(flow_results[k]) = <<2, hw[1], hw[2]>>
                           /\ flow_results[k] =
                                 (IF pc = "pbf_mul" THEN up ELSE Scale(up, flow_div))
                 /\ data_samples = "caller"

C9_Witness ==
    /\ entry = "predict_by_feat" /\ pc = "pp" /\ ~ds_none
    /\ Len(flow_arg) = 2 /\ Len(caller_list) = 2
    /\ caller_list[1].metainfo.img_shape = <<2, 3>>
    /\ caller_list[2].metainfo.img_shape = <<3, 4>>
    /\ Shape(flow_arg[2]) = <<2, 5, 7>>
    /\ Shape(flow_results[2]) = <<2, 2, 3>>
    /\ steps = <<"resize", "mul">>

IsLastThreeOf(fmt, path) ==
    /\ Len(fmt) = (IF Len(path) < 3 THEN Len(path) ELSE 3)
    /\ \A j \in 1..Len(fmt) : fmt[j] = path[Len(path) - Len(fmt) + j]

\* What the dense loader is to store for a path.
IsDenseFlowOf(v, path) ==
    IF path = None THEN v = NoneVal
    ELSE v.kind = "flow" /\ v.src = path /\ IsLastThreeOf(v.fmt, path)

\* C6: in dense mode transform sets both gt_flow_fw and gt_flow_bw, each
\* independently of the other: the decoded array iff its path is present and
\* None otherwise; no file is read for an absent path, and the format passed
\* to the decoder is the last 3 characters of the path.
C6_DenseSetsBothKeys ==
    ~sparse =>
        /\ lpc \in {"occ_fw", "occ_bw", "occ_store", "return", "done"}
              => /\ IsDenseFlowOf(results.gt_flow_fw, results.flow_fw_path)
                 /\ IsDenseFlowOf(results.gt_flow_bw, results.flow_bw_path)
                 /\ results.gt_valid = Unbound
        /\ \A n \in 1..Len(reads) : results[reads[n]] # None
        /\ \A n \in 1..Len(decodes) :
              decodes[n].key \in {"flow_fw_path", "flow_bw_path"}
                 => IsLastThreeOf(decodes[n].fmt, results[decodes[n].key])

C6_Witness ==
    /\ ~sparse /\ lpc = "done" /\ lret = "results"
    /\ results.flow_fw_path = None
    /\ results.flow_bw_path = <<"a", ".", "f", "l", "o">>
    /\ results.gt_flow_fw = NoneVal
    /\ results.gt_flow_bw.fmt = <<"f", "l", "o">>
    /\ reads = <<"flow_bw_path">>

\* C7: in sparse mode a record without flow_fw_path is not an error:
\* transform completes normally with gt_flow_fw = None, gt_flow_bw = None and
\* a defined gt_valid.
C7_SparseAbsentPathCompletes ==
    (sparse /\ results.flow_fw_path = None)
    => /\ lerr # "UnboundLocalError"
       /\ lpc = "done" => /\ results.gt_flow_fw = NoneVal
                          /\ results.gt_flow_bw = NoneVal
                          /\ results.gt_valid # Unbound

\* The position of a path key in the order the files are read.
KeyOrder(k) == CHOOSE n \in 1..4 : PathKeys[n] = k

\* The key of results a path key's item is stored under.
GtKey(k) ==
    CASE k = "flow_fw_path" -> "gt_flow_fw"
      [] k = "flow_bw_path" -> "gt_flow_bw"
      [] k = "occ_fw_path"  -> "gt_occ_fw"
      [] k = "occ_bw_path"  -> "gt_occ_bw"

\* C8: a failure raised while fetching or decoding a present file propagates
\* out of transform: transform never completes normally after it and never
\* substitutes None or a default for the failed item, and no later file of the
\* record is read after the failure (order: forward flow, backward flow,
\* forward occlusion, backward occlusion).
C8_FailurePropagates ==
    /\ \A n \in 1..Len(reads) :
          /\ n < Len(reads) => fs[results[reads[n]]] = "ok"
          /\ n < Len(reads) => KeyOrder(reads[n]) < KeyOrder(reads[n + 1])
          /\ fs[results[reads[n]]] # "ok"
                => /\ lpc = "raised"
                   /\ lerr = (IF fs[results[reads[n]]] = "unreadable"
                              THEN "IOError" ELSE "DecodeError")
                   /\ lret = "unset"
                   /\ results[GtKey(reads[n])] = Unbound
    /\ lerr \in {"IOError", "DecodeError"}
          => Len(reads) > 0 /\ fs[results[reads[Len(reads)]]] # "ok"
    /\ lpc = "done" => lerr = "none"

C8_Witness ==
    /\ lpc = "raised" /\ lerr = "DecodeError" /\ with_occ /\ ~sparse
    /\ reads = <<"flow_fw_path", "occ_fw_path">>
    /\ results.occ_bw_path # None
    /\ results.gt_flow_fw.kind = "flow"
    /\ results.gt_occ_fw = Unbound

====
